---- MODULE Spec2Model ----
(***************************************************************************)
(* The build-validate-fix loop of the dbt demo automation:                 *)
(*   src/src/dbt_cli/error_parser.py    DbtErrorParser                      *)
(*   src/src/dbt_cli/executor.py        DbtCliExecutor                      *)
(*   src/src/dbt_cli/auto_fixer.py      DbtAutoFixer                        *)
(*   src/src/dbt_cli/build_validator.py BuildValidator                      *)
(*                                                                         *)
(* Text.  A Python str is modelled as a sequence of tokens: a token is a   *)
(* word (a maximal run of non-whitespace characters) or NL (one "\n").     *)
(* Two adjacent words are separated by exactly one space; there is no      *)
(* other whitespace.  "" is <<>> and  a + "\n" + b  is  a \o <<NL>> \o b.  *)
(* The words are those of Vocabulary; what the code asks about the         *)
(* characters of a word (substring, prefix, suffix, digits) is tabulated   *)
(* for that vocabulary below.                                              *)
(***************************************************************************)
EXTENDS Integers, Sequences, FiniteSets, TLC

NL == "\n"
EOT == "<end-of-text>"

Vocabulary ==
  { "Compilation", "Database", "Runtime", "Parsing", "Validation", "Failure",
    "Error", "ERROR", "FAIL", "PASS", "in", "model", "test", "seed",
    "loading", "of", "1", "3", "30", "m1", "seed_x", "s.yml", "(p.sql)",
    "(s.csv)", "msg", "connection", "Command", "timed", "out", "denied" }

\* <<w, lit>>: lit is a proper prefix / proper suffix of the vocabulary word w,
\* for the literals the patterns of error_parser.py use.
ProperPrefixes == { <<"seed_x", "seed">> }
ProperSuffixes == {}

StartsWith(w, lit) == w = lit \/ <<w, lit>> \in ProperPrefixes
EndsWith(w, lit) == w = lit \/ <<w, lit>> \in ProperSuffixes
\* lit in w, for a literal without whitespace and one word w
Contains(w, lit) == StartsWith(w, lit) \/ EndsWith(w, lit)
\* \d+ at the end of the word / the whole word is \d+
EndsWithDigits(w) == w \in {"1", "3", "30", "m1"}
AllDigits(w) == w \in {"1", "3", "30"}
\* \(([^)]+)\) is the whole word
IsParenWord(w) == w \in {"(p.sql)", "(s.csv)"}
\* the group ([^)]+) of a word \(([^)]+)\)
ParenInner(w) == IF w = "(p.sql)" THEN "p.sql" ELSE "s.csv"
\* \S+\.yml is the whole word
EndsYml(w) == w \in {"s.yml"}
\* kw in w.lower()
LowerContains(w, kw) == w = kw

Tok(t, i) == IF i \in 1..Len(t) THEN t[i] ELSE EOT
IsWord(x) == x # NL /\ x # EOT

\* lit in text, lit a literal of one word
TextContains(t, lit) == \E i \in 1..Len(t) : IsWord(t[i]) /\ Contains(t[i], lit)

\* lits in text, lits a literal of several words separated by single spaces
PhraseAt(t, i, lits) ==
  /\ i + Len(lits) - 1 <= Len(t)
  /\ \A k \in 1..Len(lits) :
       LET w == t[i + k - 1] IN
       /\ IsWord(w)
       /\ IF k = 1 /\ Len(lits) = 1 THEN Contains(w, lits[k])
          ELSE IF k = 1 THEN EndsWith(w, lits[k])
          ELSE IF k = Len(lits) THEN StartsWith(w, lits[k])
          ELSE w = lits[k]

TextContainsPhrase(t, lits) == \E i \in 1..Len(t) : PhraseAt(t, i, lits)

(***************************************************************************)
(* error_parser.py: the regular expressions, on tokens.  Each pattern is   *)
(* unanchored, so its first literal may end a longer word; a literal that  *)
(* is followed by a space in the pattern is a whole word.                  *)
(***************************************************************************)
NoMatch ==
  [ok |-> FALSE, end |-> 0, name |-> "", path |-> "", status |-> "", msg |-> <<>>,
   raw |-> <<>>]

Min(S) == CHOOSE x \in S : \A y \in S : x <= y

RECURSIVE SkipNL(_, _)
\* \s* over the tokens from j on: the first index >= j that holds no NL
SkipNL(t, j) == IF Tok(t, j) = NL THEN SkipNL(t, j + 1) ELSE j

\* (.*?)(?=\n\n|\Z) from token s on: the index of the last token of the group
MsgEnd(t, s) ==
  Min({ e \in (s - 1)..Len(t) : e = Len(t) \/ (Tok(t, e + 1) = NL /\ Tok(t, e + 2) = NL) })

RECURSIVE StripLeft(_)
StripLeft(m) == IF m # <<>> /\ Head(m) = NL THEN StripLeft(Tail(m)) ELSE m
RECURSIVE StripRight(_)
StripRight(m) ==
  IF m # <<>> /\ m[Len(m)] = NL THEN StripRight(SubSeq(m, 1, Len(m) - 1)) ELSE m
\* str.strip()
Strip(m) == StripRight(StripLeft(m))

\* the literal words lits at token i: "<lits> " of a pattern
HeadMatch(t, i, lits) ==
  \A k \in 1..Len(lits) :
     LET w == Tok(t, i + k - 1) IN
     IsWord(w) /\ (IF k = 1 THEN EndsWith(w, lits[k]) ELSE w = lits[k])

\* "<one of alts> (\S+) \(([^)]+)\)\s*\n(.*?)(?=\n\n|\Z)" at token i, the
\* alternatives of alts all n words long
StructuredAt(t, i, alts, n) ==
  IF /\ \E lits \in alts : HeadMatch(t, i, lits)
     /\ IsWord(Tok(t, i + n))
     /\ IsWord(Tok(t, i + n + 1)) /\ IsParenWord(Tok(t, i + n + 1))
     /\ Tok(t, i + n + 2) = NL
  THEN LET s == SkipNL(t, i + n + 2)
           e == MsgEnd(t, s)
       IN [ok |-> TRUE, end |-> e, name |-> t[i + n],
           path |-> ParenInner(t[i + n + 1]),
           status |-> "", msg |-> SubSeq(t, s, e), raw |-> SubSeq(t, i, e)]
  ELSE NoMatch

_COMPILATION_RE(t, i) ==
  StructuredAt(t, i, { <<"Compilation", "Error", "in", "model">> }, 4)

_DATABASE_RE(t, i) ==
  StructuredAt(t, i, { <<"Database", "Error", "in", "model">>,
                       <<"Database", "Error", "in", "test">>,
                       <<"Database", "Error", "in", "seed">> }, 4)

_TEST_FAIL_RE(t, i) == StructuredAt(t, i, { <<"Failure", "in", "test">> }, 3)

_SEED_RE(t, i) ==
  StructuredAt(t, i, { <<"Database", "Error", "in", "seed">>,
                       <<"Runtime", "Error", "in", "seed">> }, 4)

_SEED_FAILURE_RE(t, i) == StructuredAt(t, i, { <<"Failure", "in", "seed">> }, 3)

\* "(?:Parsing|Validation) Error.*?in\s+(\S+\.yml)\s*\n(.*?)(?=\n\n|\Z)"
_YAML_RE(t, i) ==
  LET starts == /\ IsWord(Tok(t, i))
                /\ (EndsWith(Tok(t, i), "Parsing") \/ EndsWith(Tok(t, i), "Validation"))
                /\ IsWord(Tok(t, i + 1)) /\ StartsWith(Tok(t, i + 1), "Error")
      \* the places where "in\s+(\S+\.yml)\s*\n" matches; .*? takes the first
      ins == { j \in (i + 1)..Len(t) :
                 /\ IsWord(t[j]) /\ EndsWith(t[j], "in")
                 /\ LET y == SkipNL(t, j + 1) IN
                    /\ IsWord(Tok(t, y)) /\ EndsYml(Tok(t, y))
                    /\ Tok(t, y + 1) = NL }
  IN IF starts /\ ins # {}
     THEN LET y == SkipNL(t, Min(ins) + 1)
              s == SkipNL(t, y + 1)
              e == MsgEnd(t, s)
          IN [ok |-> TRUE, end |-> e, name |-> "", path |-> t[y], status |-> "",
              msg |-> SubSeq(t, s, e), raw |-> SubSeq(t, i, e)]
     ELSE NoMatch

\* "\d+ of \d+ (<statuses>)\s+(\S+)" at token i; status is group 1, name group 2
ResultLineAt(t, i, statuses) ==
  IF /\ IsWord(Tok(t, i)) /\ EndsWithDigits(Tok(t, i))
     /\ Tok(t, i + 1) = "of"
     /\ IsWord(Tok(t, i + 2)) /\ AllDigits(Tok(t, i + 2))
     /\ Tok(t, i + 3) \in statuses
     /\ IsWord(Tok(t, SkipNL(t, i + 4)))
  THEN LET n == SkipNL(t, i + 4) IN
       [ok |-> TRUE, end |-> n, name |-> t[n], path |-> "", status |-> t[i + 3],
        msg |-> <<>>, raw |-> SubSeq(t, i, n)]
  ELSE NoMatch

_RESULT_LINE_RE(t, i) == ResultLineAt(t, i, {"PASS", "FAIL", "ERROR", "WARN", "SKIP"})

\* _SUMMARY_ERROR_RE.search(t): the optional groups (?:loading\s+)? and
\* (?:seed\s+file\s+|model\s+|test\s+)? may match nothing, so a match exists
\* exactly when "\d+ of \d+ (ERROR|FAIL)\s+(\S+)" has one
_SUMMARY_ERROR_RE(t) == \E i \in 1..Len(t) : ResultLineAt(t, i, {"ERROR", "FAIL"}).ok

Patterns == {"compilation", "database", "test", "seed", "seed_failure", "yaml", "result"}

MatchAt(re, t, i) ==
  CASE re = "compilation" -> _COMPILATION_RE(t, i)
    [] re = "database" -> _DATABASE_RE(t, i)
    [] re = "test" -> _TEST_FAIL_RE(t, i)
    [] re = "seed" -> _SEED_RE(t, i)
    [] re = "seed_failure" -> _SEED_FAILURE_RE(t, i)
    [] re = "yaml" -> _YAML_RE(t, i)
    [] re = "result" -> _RESULT_LINE_RE(t, i)

RECURSIVE FindIterFrom(_, _, _)
\* re.finditer(t): the non-overlapping matches, left to right
FindIterFrom(re, t, i) ==
  IF i > Len(t) THEN <<>>
  ELSE LET m == MatchAt(re, t, i) IN
       IF m.ok THEN <<m>> \o FindIterFrom(re, t, (IF m.end >= i THEN m.end ELSE i) + 1)
       ELSE FindIterFrom(re, t, i + 1)

FindIter(re, t) == FindIterFrom(re, t, 1)

(***************************************************************************)
(* error_parser.py: DbtError and DbtErrorParser.                           *)
(* DbtError.category is an ErrorCategory member when the parser builds the *)
(* error; is_enum records whether the value is a member of the enum or a   *)
(* plain str (only a member has the attribute .value).  sql_error_code     *)
(* needs a six-digit word, which the vocabulary does not hold.             *)
(***************************************************************************)
DbtError(cat, enum, name, path, msg, raw, test) ==
  [category |-> cat, is_enum |-> enum, model_name |-> name, file_path |-> path,
   message |-> msg, sql_error_code |-> "", raw_output |-> raw, test_name |-> test]

\* str.split("\n")
RECURSIVE SplitLines(_)
SplitLines(t) ==
  IF \E i \in 1..Len(t) : t[i] = NL
  THEN LET i == Min({ j \in 1..Len(t) : t[j] = NL }) IN
       <<SubSeq(t, 1, i - 1)>> \o SplitLines(SubSeq(t, i + 1, Len(t)))
  ELSE <<t>>

RECURSIVE JoinLines(_)
\* "\n".join(lines)
JoinLines(ls) ==
  IF ls = <<>> THEN <<>>
  ELSE IF Len(ls) = 1 THEN ls[1]
  ELSE ls[1] \o <<NL>> \o JoinLines(Tail(ls))

RECURSIVE SelectLines(_)
\* [l.strip() for l in lines if "Error" in l or "FAIL" in l]
SelectLines(ls) ==
  IF ls = <<>> THEN <<>>
  ELSE (IF TextContains(ls[1], "Error") \/ TextContains(ls[1], "FAIL")
        THEN <<ls[1]>> ELSE <<>>) \o SelectLines(Tail(ls))

\* text[-n:], every modelled text being shorter than the 500 characters of
\* the smallest n the code uses
LastChars(t) == t

_extract_context(t) ==
  LET error_lines == SelectLines(SplitLines(t)) IN
  IF error_lines # <<>>
  THEN JoinLines(SubSeq(error_lines, 1, IF Len(error_lines) < 5 THEN Len(error_lines) ELSE 5))
  ELSE LastChars(t)

RECURSIVE MapMatches(_, _, _)
\* one DbtError per match of a structured pattern, no check of earlier errors
MapMatches(ms, cat, isTest) ==
  IF ms = <<>> THEN <<>>
  ELSE <<DbtError(cat, TRUE, ms[1].name, ms[1].path, Strip(ms[1].msg), ms[1].raw,
                  IF isTest THEN ms[1].name ELSE "")>>
       \o MapMatches(Tail(ms), cat, isTest)

RECURSIVE AddSeedFailures(_, _)
\* lines 174-185: a "Failure in seed" match is added unless an error of that
\* model_name is already in the list
AddSeedFailures(errors, ms) ==
  IF ms = <<>> THEN errors
  ELSE AddSeedFailures(
         IF \E k \in 1..Len(errors) : errors[k].model_name = ms[1].name
         THEN errors
         ELSE Append(errors, DbtError("seed_error", TRUE, ms[1].name, ms[1].path,
                                      Strip(ms[1].msg), ms[1].raw, "")),
         Tail(ms))

RECURSIVE AddResultLines(_, _)
\* lines 198-213: a FAIL / ERROR summary line is added unless an error of that
\* model_name or test_name is already in the list
AddResultLines(errors, ms) ==
  IF ms = <<>> THEN errors
  ELSE AddResultLines(
         IF /\ ms[1].status \in {"FAIL", "ERROR"}
            /\ ~ \E k \in 1..Len(errors) :
                   errors[k].model_name = ms[1].name \/ errors[k].test_name = ms[1].name
         THEN Append(errors,
                DbtError(IF ms[1].status = "FAIL" THEN "test_failure" ELSE "unknown",
                         TRUE, ms[1].name, "", <<ms[1].status, ms[1].name>>, ms[1].raw, ""))
         ELSE errors,
         Tail(ms))

ConnectionKeywords == {"connection", "timeout", "refused", "authentication"}

\* lines 215-235: the fallback
Fallback(errors, combined) ==
  IF errors = <<>> /\ (TextContains(combined, "ERROR") \/ TextContains(combined, "FAIL"))
  THEN IF \E kw \in ConnectionKeywords :
            \E i \in 1..Len(combined) : IsWord(combined[i]) /\ LowerContains(combined[i], kw)
       THEN <<DbtError("connection", TRUE, "", "", _extract_context(combined),
                       LastChars(combined), "")>>
       ELSE IF TextContains(combined, "Error")
       THEN <<DbtError("unknown", TRUE, "", "", _extract_context(combined),
                       LastChars(combined), "")>>
       ELSE errors
  ELSE errors

Combined(stdout, stderr) == stdout \o <<NL>> \o stderr

\* DbtErrorParser.parse
parse(stdout, stderr) ==
  LET combined == Combined(stdout, stderr)
      e1 == MapMatches(FindIter("compilation", combined), "compilation", FALSE)
      e2 == e1 \o MapMatches(FindIter("database", combined), "database", FALSE)
      e3 == e2 \o MapMatches(FindIter("test", combined), "test_failure", TRUE)
      e4 == e3 \o MapMatches(FindIter("seed", combined), "seed_error", FALSE)
      e5 == AddSeedFailures(e4, FindIter("seed_failure", combined))
      e6 == e5 \o MapMatches(FindIter("yaml", combined), "yaml_parse", FALSE)
      e7 == AddResultLines(e6, FindIter("result", combined))
  IN Fallback(e7, combined)

_ERROR_INDICATORS ==
  { <<"ERROR", "loading", "seed">>, <<"Database", "Error", "in">>,
    <<"Compilation", "Error", "in">>, <<"Runtime", "Error", "in">>,
    <<"Failure", "in", "test">>, <<"Failure", "in", "seed">>,
    <<"Parsing", "Error">>, <<"Validation", "Error">> }

\* DbtErrorParser.has_error_indicators
has_error_indicators(stdout, stderr) ==
  LET combined == Combined(stdout, stderr) IN
  \/ \E indicator \in _ERROR_INDICATORS : TextContainsPhrase(combined, indicator)
  \/ _SUMMARY_ERROR_RE(combined)

\* DbtErrorParser.get_error_summary: e.category.value raises AttributeError
\* for a category that is a plain str
get_error_summary_raises(errors) == \E k \in 1..Len(errors) : ~errors[k].is_enum

Categories ==
  {"compilation", "database", "test_failure", "seed_error", "dependency",
   "yaml_parse", "connection", "unknown"}

get_error_summary(errors) ==
  [c \in { errors[k].category : k \in 1..Len(errors) } |->
     Cardinality({ k \in 1..Len(errors) : errors[k].category = c })]

(***************************************************************************)
(* executor.py: DbtCommandResult and DbtCliExecutor._run.                  *)
(***************************************************************************)
\* a result that reports success whatever the return code
DbtCommandResult_always_ok(cmd, ok, rc, out, err) ==
  [command |-> cmd, success |-> TRUE, return_code |-> rc, stdout |-> out, stderr |-> err]

DbtCommandResult(cmd, ok, rc, out, err) ==
  [command |-> cmd, success |-> ok, return_code |-> rc, stdout |-> out, stderr |-> err]

\* what a dbt process can print: <<stdout, stderr>>
CleanOutput == << <<"1", "of", "30", "PASS", "m1", NL>>, <<>> >>
CompilationOutput ==
  << <<"Compilation", "Error", "in", "model", "m1", "(p.sql)", NL, "msg", NL>>, <<>> >>
SummaryOutput == << <<"3", "of", "30", "ERROR", "loading", "seed", "seed_x", NL>>, <<>> >>
RuntimeErrorOutput == << <<"Runtime", "Error", NL>>, <<>> >>
ParsingErrorOutput == << <<>>, <<"Parsing", "Error">> >>

\* the processes the model runs: exit code and output
ProcessOutcomes ==
  { <<0, CleanOutput>>, <<0, CompilationOutput>>, <<0, SummaryOutput>>,
    <<0, ParsingErrorOutput>>, <<1, CompilationOutput>>, <<1, RuntimeErrorOutput>> }

\* DbtCliExecutor._run, lines 125-136: the binary is not resolved
_run_not_found(cmd) ==
  DbtCommandResult(cmd, FALSE, -1, <<>>, <<"dbt", "CLI", "not", "found">>)

\* what subprocess.run does: the process exits, the timeout expires, or
\* another exception is raised (the binary is gone, the launch is denied)
RunEvents == {"exit", "timeout", "error"}

\* DbtCliExecutor._run with the binary resolved, lines 150-185: the result
\* for one event (success=proc.returncode == 0 when the process exits)
_run_on(cmd, event, o) ==
  IF event = "exit" THEN DbtCommandResult(cmd, o[1] = 0, o[1], o[2][1], o[2][2])
  ELSE IF event = "timeout"
  THEN DbtCommandResult(cmd, FALSE, -2, <<>>, <<"Command", "timed", "out">>)
  ELSE DbtCommandResult(cmd, FALSE, -3, <<>>, <<"denied">>)

\* DbtCliExecutor._run with the binary resolved: every result it can give
_run(cmd) == { _run_on(cmd, event, o) : event \in RunEvents, o \in ProcessOutcomes }

(***************************************************************************)
(* auto_fixer.py: FilePatch, FixResult, diagnose_and_fix, apply_patches.   *)
(* The backend's answer is taken after _parse_response: the patch list it  *)
(* yields.  A patch is the path it replaces; its content is new to the     *)
(* file (lines 330 and 352 drop a patch that would change nothing).        *)
(***************************************************************************)
FilePatch(path) == [file_path |-> path]

FixResult(ok, patches, expl, addressed, remaining) ==
  [success |-> ok, patches |-> patches, explanation |-> expl,
   errors_addressed |-> addressed, errors_remaining |-> remaining]

PatchLists ==
  { <<FilePatch("models/x.sql")>>,
    <<FilePatch("models/x.sql"), FilePatch("seeds/s.csv"), FilePatch("models/x.sql")>> }

\* what the backend call does: it raises, or it returns a response;
\* _parse_response then raises (read_text of a path the response names, line
\* 328 or 351) or yields patches
BackendOutcomes ==
  { [raises |-> TRUE, parse_raises |-> FALSE, patches |-> <<>>],
    [raises |-> FALSE, parse_raises |-> TRUE, patches |-> <<>>] }
  \cup { [raises |-> FALSE, parse_raises |-> FALSE, patches |-> pl] :
           pl \in PatchLists \cup { <<>> } }

max_errors == 5

\* lines 138-145: the categories in the order they are fixed
priority ==
  <<"yaml_parse", "compilation", "database", "seed_error", "test_failure", "dependency">>

\* a key that ranks every error alike
PriorityKey_flat(e) == 99

\* line 148: priority.index(e.category) if e.category in priority else 99
PriorityKey(e) ==
  IF \E i \in 1..Len(priority) : priority[i] = e.category
  THEN (CHOOSE i \in 1..Len(priority) : priority[i] = e.category) - 1
  ELSE 99

\* the errors of key k, in the order of the input
WithKey(errors, k) == SelectSeq(errors, LAMBDA e : PriorityKey(e) = k)

\* lines 146-149: sorted(errors, key=...)[:n], for n >= 0; sorted is stable
SortedErrors(errors, n) ==
  LET all == WithKey(errors, 0) \o WithKey(errors, 1) \o WithKey(errors, 2)
             \o WithKey(errors, 3) \o WithKey(errors, 4) \o WithKey(errors, 5)
             \o WithKey(errors, 99)
  IN SubSeq(all, 1, IF n < Len(all) THEN n ELSE Len(all))

\* lines 134-135, 156-161: ai_provider.generate is called once, unless there
\* is no error
generate_calls(errors) == IF errors = <<>> THEN 0 ELSE 1

\* DbtAutoFixer.diagnose_and_fix, lines 134-173, once _gather_context and
\* _build_prompt have returned
diagnose_and_fix(errors, n, backend) ==
  IF errors = <<>> THEN FixResult(TRUE, <<>>, "No errors to fix.", 0, 0)
  ELSE LET selected == SortedErrors(errors, n) IN
       IF backend.raises \/ backend.parse_raises
       THEN FixResult(FALSE, <<>>, "Failed to generate fixes", 0, 0)
       ELSE FixResult(Len(backend.patches) > 0, backend.patches, "Generated fixes",
                      Len(selected), Len(errors) - Len(selected))

\* patches applied without their paths being reported
apply_patches_reports_none(patches) == <<>>

\* DbtAutoFixer.apply_patches: the paths written, in order
RECURSIVE apply_patches(_)
apply_patches(patches) ==
  IF patches = <<>> THEN <<>>
  ELSE <<patches[1].file_path>> \o apply_patches(Tail(patches))

(***************************************************************************)
(* build_validator.py: BuildValidator.validate as a labelled program; a    *)
(* label is the source line of the statement that runs next.               *)
(***************************************************************************)
VARIABLES
  pc,             \* the line validate() is at, or "returned" / "raised"
  max_attempts,   \* BuildValidator.max_attempts
  can_push,       \* bool(github_token and github_repo_url)
  on_path,        \* whether shutil.which("dbt") finds the binary
  dbt_path,       \* DbtCliExecutor._dbt_path
  lookups,        \* calls of shutil.which so far
  cli_info,
  num, attempt, attempts, all_modified, pushed,   \* locals of validate()
  result, errors, fix_result,
  returned,       \* the BuildResult validate() returned
  raised,         \* the exception that left validate()
  builds,         \* calls of executor.build so far
  fixer_calls,    \* calls of fixer.diagnose_and_fix so far
  worktree,       \* changes in the working tree that no commit holds
  local_commits,  \* changes committed locally and not on the remote
  remote,         \* changes on the remote branch
  ppc, in_stdout, in_stderr, out_errors, out_indicators,  \* the parser's run
  effects,        \* the kinds of outside effect validate() has had so far
  push_ok,        \* local of validate(): what the last _push_fixes returned
  push_calls,     \* calls of _push_fixes so far
  git_pushes,     \* git push commands the last call of _push_fixes ran
  fpc, response, disk, out_patches,  \* the run of _parse_response
  written,        \* the files apply_patches has written, as the OS resolves them
  seed_calls,     \* calls of executor.seed so far
  backend_calls,  \* calls of ai_provider.generate so far
  rpc, run_cmd, run_result,   \* a call of DbtCliExecutor._run
  run_event,      \* what subprocess.run did in that call
  started,        \* calls of subprocess.run so far
  dpc, diag_errors, diag_max, diag_backend,   \* a call of diagnose_and_fix
  sorted_errors, diag_result

cfgVars == <<max_attempts, can_push, on_path>>
execVars == <<dbt_path, lookups, cli_info>>
loopVars == <<num, attempt, attempts, all_modified, pushed, result, errors, fix_result>>
endVars == <<returned, raised>>
countVars == <<builds, fixer_calls>>
gitVars == <<worktree, local_commits, remote>>
parseVars == <<ppc, in_stdout, in_stderr, out_errors, out_indicators>>
pushVars == <<push_ok, push_calls, git_pushes>>
fixVars == <<fpc, response, disk, out_patches, written>>
callVars == <<seed_calls, backend_calls>>
runVars == <<rpc, run_cmd, run_result, run_event, started>>
diagVars == <<dpc, diag_errors, diag_max, diag_backend, sorted_errors, diag_result>>
vars ==
  <<pc, cfgVars, execVars, loopVars, endVars, countVars, gitVars, parseVars, effects,
    pushVars, fixVars, callVars, runVars, diagVars>>

\* an outside effect of validate(): a file written under the project
\* directory, a call of the progress callback, a dbt command, a git command,
\* a call of the fixer
EffectKinds == {"write", "progress", "dbt", "git", "fixer"}
Does(kinds) == effects' = effects \cup kinds

MaxAttemptsBound == 3

None == [none |-> TRUE]
NoPath == "None"

\* an attempt numbered from 0
BuildAttempt_zero_based(n) ==
  [attempt_number |-> n - 1, command_result |-> None, errors |-> <<>>,
   fixes_applied |-> <<>>, status |-> "pending"]

\* an attempt that is created in status fixed
BuildAttempt_born_fixed(n) ==
  [attempt_number |-> n, command_result |-> None, errors |-> <<>>,
   fixes_applied |-> <<>>, status |-> "fixed"]

\* lines 37-46: the dataclass BuildAttempt, as made at line 218
BuildAttempt(n) ==
  [attempt_number |-> n, command_result |-> None, errors |-> <<>>,
   fixes_applied |-> <<>>, status |-> "pending"]

BuildResult(ok, total, atts, final, modified, msg, pushedFlag, info) ==
  [success |-> ok, total_attempts |-> total, attempts |-> atts, final_errors |-> final,
   files_modified |-> modified, message |-> msg, cli_info |-> info,
   pushed_to_github |-> pushedFlag]

\* a change of the working tree: the patch of attempt n to path (n = 0: a
\* write validate() makes before the loop)
Change(n, path) == [attempt |-> n, file_path |-> path]

\* a build tool that is always found
which_always(found) == "/usr/local/bin/dbt"

\* DbtCliExecutor.dbt_path: the cached path, looked up while it is None
dbt_path_after(cached, found) == IF cached = NoPath THEN found ELSE cached
\* shutil.which("dbt")
which(found) == IF found THEN "/usr/local/bin/dbt" ELSE NoPath

\* _parse_response is not running
FixIdle ==
  /\ fpc = "idle" /\ response = [strict |-> <<>>, lenient |-> <<>>, path |-> <<>>]
  /\ disk = [exists |-> FALSE, content |-> <<>>] /\ out_patches = <<>>
  /\ written = {}

\* _run is not running
RunIdle ==
  rpc = "idle" /\ run_cmd = "" /\ run_result = None /\ run_event = "none" /\ started = 0

\* diagnose_and_fix is not running
DiagIdle ==
  /\ dpc = "idle" /\ diag_errors = <<>> /\ diag_max = 0 /\ diag_backend = None
  /\ sorted_errors = <<>> /\ diag_result = None

ParseIdle ==
  /\ ppc = "idle" /\ in_stdout = <<>> /\ in_stderr = <<>>
  /\ out_errors = <<>> /\ out_indicators = FALSE

Init ==
  /\ pc = "L155"
  /\ max_attempts \in 0..MaxAttemptsBound
  /\ can_push \in BOOLEAN
  /\ on_path \in BOOLEAN
  /\ dbt_path = NoPath /\ lookups = 0 /\ cli_info = None
  /\ num = 0 /\ attempt = None /\ attempts = <<>> /\ all_modified = <<>>
  /\ pushed = FALSE /\ result = None /\ errors = <<>> /\ fix_result = None
  /\ returned = None /\ raised = "none"
  /\ builds = 0 /\ fixer_calls = 0
  /\ worktree = {} /\ local_commits = {} /\ remote = {}
  /\ effects = {}
  /\ push_ok = None /\ push_calls = 0 /\ git_pushes = 0
  /\ seed_calls = 0 /\ backend_calls = 0
  /\ RunIdle /\ DiagIdle
  /\ ParseIdle
  /\ FixIdle

\* control that skips the build loop after the seed pre-check
Goto_seed_stops(l) == pc' = IF l = "L202" THEN "L356" ELSE l

\* control that goes on to the next build without the per-attempt push
Goto_skips_push(l) == pc' = IF l = "L333" THEN "L347" ELSE l

\* control that leaves the loop after a per-attempt push
Goto_push_breaks(l) == pc' = IF l = "L336" THEN "L356" ELSE l

\* the statement that runs next
Goto(l) == pc' = l

\* line 155: cli_info = self.get_cli_info() if self.cli_available else ...
L155 ==
  /\ pc = "L155"
  /\ dbt_path' = dbt_path_after(dbt_path, which(on_path))
  /\ lookups' = IF dbt_path = NoPath THEN lookups + 1 ELSE lookups
  /\ cli_info' = IF dbt_path' # NoPath THEN [type |-> "probed"] ELSE [type |-> "not_found"]
  /\ Goto("L157")
  /\ Does(IF dbt_path' # NoPath THEN {"dbt"} ELSE {})
  /\ UNCHANGED <<cfgVars, loopVars, endVars, countVars, gitVars, parseVars, pushVars,
                 fixVars,
                 callVars, runVars, diagVars>>

\* lines 157-170: if not self.cli_available: return BuildResult(...)
L157 ==
  /\ pc = "L157"
  /\ dbt_path' = dbt_path_after(dbt_path, which(on_path))
  /\ lookups' = IF dbt_path = NoPath THEN lookups + 1 ELSE lookups
  /\ IF dbt_path' = NoPath
     THEN /\ returned' = BuildResult(FALSE, 0, <<>>, <<>>, <<>>, "cli_not_found", FALSE,
                                     cli_info)
          /\ Goto("returned")
     ELSE /\ Goto("L173")
          /\ UNCHANGED returned
  /\ UNCHANGED <<cfgVars, cli_info, loopVars, raised, countVars, gitVars, parseVars, effects,
                 pushVars, fixVars,
                 callVars, runVars, diagVars>>

\* lines 173-176: self._ensure_gitignore(); if generated_files:
L173 ==
  /\ pc = "L173"
  /\ \E additions \in BOOLEAN :
       /\ worktree' = IF additions THEN worktree \cup {Change(0, ".gitignore")} ELSE worktree
       /\ Does(IF additions THEN {"write"} ELSE {})
  /\ \E generated_files \in BOOLEAN : Goto(IF generated_files THEN "L177" ELSE "L182")
  /\ UNCHANGED <<cfgVars, execVars, loopVars, endVars, countVars, local_commits, remote,
                 parseVars, pushVars, fixVars,
                 callVars, runVars, diagVars>>

\* line 178: self._write_files(generated_files)
L178 ==
  /\ pc = "L178"
  /\ worktree' = worktree \cup {Change(0, "project files")}
  /\ Goto("L179")
  /\ Does({"write"})
  /\ UNCHANGED <<cfgVars, execVars, loopVars, endVars, countVars, local_commits, remote,
                 parseVars, pushVars, fixVars,
                 callVars, runVars, diagVars>>

\* line 183: self.executor.setup_cloud_config(); dbt_cloud.yml is in .gitignore
L183 ==
  /\ pc = "L183"
  /\ Goto("L184")
  /\ \E project_id \in BOOLEAN : Does(IF project_id THEN {"write"} ELSE {})
  /\ UNCHANGED <<cfgVars, execVars, loopVars, endVars, countVars, gitVars, parseVars,
                 pushVars, fixVars,
                 callVars, runVars, diagVars>>

\* line 187: branch = self._detect_branch()
L187 ==
  /\ pc = "L187"
  /\ Goto("L191")
  /\ Does({"git"})
  /\ UNCHANGED <<cfgVars, execVars, loopVars, endVars, countVars, gitVars, parseVars,
                 pushVars, fixVars,
                 callVars, runVars, diagVars>>

\* line 192: deps_result = self.executor.deps()
L192 ==
  /\ pc = "L192"
  /\ \E deps_result \in _run("dbt deps") : Goto("L193")
  /\ Does({"dbt"})
  /\ UNCHANGED <<cfgVars, execVars, loopVars, endVars, countVars, gitVars, parseVars,
                 pushVars, fixVars,
                 callVars, runVars, diagVars>>

\* lines 201-213: seed_result = self.executor.seed(full_refresh=True), and
\* the choice of the message line 202 reports
L201 ==
  /\ pc = "L201"
  /\ \E seed_result \in _run("dbt seed --full-refresh") :
       \E seed_errors \in
            { IF ~seed_result.success
                 \/ has_error_indicators(seed_result.stdout, seed_result.stderr)
              THEN parse(seed_result.stdout, seed_result.stderr) ELSE <<>> } :
          Goto("L202")
  /\ Does({"dbt"})
  /\ seed_calls' = seed_calls + 1
  /\ UNCHANGED <<cfgVars, execVars, loopVars, endVars, countVars, gitVars, parseVars,
                 pushVars, fixVars,
                 backend_calls, runVars, diagVars>>

\* the calls self._progress(...): the line of the call and the line after it
ProgressNext ==
  ("L177" :> "L178") @@ ("L179" :> "L182") @@ ("L182" :> "L183") @@ ("L184" :> "L187")
  @@ ("L191" :> "L192") @@ ("L193" :> "L200") @@ ("L200" :> "L201")
  @@ ("L202" :> "L217") @@ ("L220" :> "L221") @@ ("L251" :> "L252")
  @@ ("L254" :> "L259") @@ ("L259" :> "L260") @@ ("L289" :> "L295")
  @@ ("L298" :> "L356") @@ ("L302" :> "L306") @@ ("L320" :> "L356")
  @@ ("L333" :> "L334") @@ ("L336" :> "L347") @@ ("L347" :> "L351")

\* self._progress(step, status) returns
Progress ==
  /\ pc \in DOMAIN ProgressNext
  /\ Goto(ProgressNext[pc])
  /\ Does({"progress"})
  /\ UNCHANGED <<cfgVars, execVars, loopVars, endVars, countVars, gitVars, parseVars,
                 pushVars, fixVars,
                 callVars, runVars, diagVars>>

\* the callback given as on_progress raises; validate() has no handler
ProgressRaises ==
  /\ pc \in DOMAIN ProgressNext
  /\ raised' = "ProgressCallbackError"
  /\ Goto("raised")
  /\ Does({"progress"})
  /\ UNCHANGED <<cfgVars, execVars, loopVars, returned, countVars, gitVars, parseVars,
                 pushVars, fixVars,
                 callVars, runVars, diagVars>>

(***************************************************************************)
(* BuildValidator._push_fixes, lines 428-468.  git is what the git         *)
(* commands of this call do: the first of set-url, add, commit, push that  *)
(* exits non-zero ("ok": none does).  git status runs with check=False.    *)
(***************************************************************************)
GitOutcomes == {"set_url_fails", "add_fails", "commit_fails", "push_fails", "ok"}

\* a push helper without the check of git status: git commit exits non-zero
\* on a clean working tree
_push_fixes_without_status(git, wt, lc, rm) ==
  IF git \in {"set_url_fails", "add_fails", "commit_fails"} \/ wt = {}
  THEN [ok |-> FALSE, worktree |-> wt, local_commits |-> lc, remote |-> rm]
  ELSE IF git = "push_fails"
  THEN [ok |-> FALSE, worktree |-> {}, local_commits |-> lc \cup wt, remote |-> rm]
  ELSE [ok |-> TRUE, worktree |-> {}, local_commits |-> {}, remote |-> rm \cup lc \cup wt]

_push_fixes(git, wt, lc, rm) ==
  IF git \in {"set_url_fails", "add_fails"}
  THEN [ok |-> FALSE, worktree |-> wt, local_commits |-> lc, remote |-> rm]
  ELSE IF wt = {}
  THEN \* status --porcelain prints nothing: return True
       [ok |-> TRUE, worktree |-> wt, local_commits |-> lc, remote |-> rm]
  ELSE IF git = "commit_fails"
  THEN [ok |-> FALSE, worktree |-> wt, local_commits |-> lc, remote |-> rm]
  ELSE IF git = "push_fails"
  THEN [ok |-> FALSE, worktree |-> {}, local_commits |-> lc \cup wt, remote |-> rm]
  ELSE [ok |-> TRUE, worktree |-> {}, local_commits |-> {}, remote |-> rm \cup lc \cup wt]

\* a push helper that runs git push again when it exits non-zero
git_commands_push_again(git, wt) ==
  <<"remote set-url", "add", "status", "commit", "push", "push">>

\* lines 430-453: the git commands one call of _push_fixes runs, up to the
\* first that exits non-zero
git_commands(git, wt) ==
  IF git = "set_url_fails" THEN <<"remote set-url">>
  ELSE IF git = "add_fails" THEN <<"remote set-url", "add">>
  ELSE IF wt = {} THEN <<"remote set-url", "add", "status">>
  ELSE IF git = "commit_fails" THEN <<"remote set-url", "add", "status", "commit">>
  ELSE <<"remote set-url", "add", "status", "commit", "push">>

\* the git push commands among cmds
Pushes(cmds) == Cardinality({ i \in 1..Len(cmds) : cmds[i] = "push" })

\* a loop that runs one iteration too many
InRange_one_more(n, maxAttempts) == n <= maxAttempts + 1

\* line 217: for num in range(1, self.max_attempts + 1)
InRange(n, maxAttempts) == n <= maxAttempts

\* lines 217-218: the loop head; attempt = BuildAttempt(attempt_number=num)
L217 ==
  /\ pc = "L217"
  /\ IF InRange(num + 1, max_attempts)
     THEN /\ num' = num + 1
          /\ attempt' = BuildAttempt(num + 1)
          /\ Goto("L220")
     ELSE /\ Goto("L356")
          /\ UNCHANGED <<num, attempt>>
  /\ UNCHANGED <<cfgVars, execVars, attempts, all_modified, pushed, result, errors,
                 fix_result, endVars, countVars, gitVars, parseVars, effects, pushVars,
                 fixVars,
                 callVars, runVars, diagVars>>

\* lines 221-235: attempt.status = "building"; result = self.executor.build(...)
L221 ==
  /\ pc = "L221"
  /\ \E r \in _run("dbt build --full-refresh") :
       /\ result' = r
       /\ attempt' = [attempt EXCEPT !.status = "building", !.command_result = r]
  /\ builds' = builds + 1
  /\ Goto("L238")
  /\ Does({"dbt"})
  /\ UNCHANGED <<cfgVars, execVars, num, attempts, all_modified, pushed, errors,
                 fix_result, endVars, fixer_calls, gitVars, parseVars, pushVars, fixVars,
                 callVars, runVars, diagVars>>

\* success read from the exit code alone
apparent_success_exit_only(r) == r.success

\* lines 238-243: the false-positive detection
apparent_success(r) == r.success /\ ~has_error_indicators(r.stdout, r.stderr)

\* lines 274-285: the parsed errors, or the one synthesized error, whose
\* category is the str "unknown" and no member of ErrorCategory
errors_of(r) ==
  LET parsed == parse(r.stdout, r.stderr) IN
  IF parsed = <<>>
  THEN <<DbtError("unknown", FALSE, "", "", _extract_context(Combined(r.stdout, r.stderr)),
                  LastChars(Combined(r.stdout, r.stderr)), "")>>
  ELSE parsed

\* lines 238-285
L238 ==
  /\ pc = "L238"
  /\ IF apparent_success(result)
     THEN /\ attempt' = [attempt EXCEPT !.status = "success"]
          /\ attempts' = Append(attempts, attempt')
          /\ Goto(IF can_push /\ all_modified # <<>> THEN "L251" ELSE "L259")
          /\ UNCHANGED errors
     ELSE /\ errors' = errors_of(result)
          /\ attempt' = [attempt EXCEPT !.errors = errors']
          /\ Goto("L287")
          /\ UNCHANGED attempts
  /\ UNCHANGED <<cfgVars, execVars, num, all_modified, pushed, result, fix_result,
                 endVars, countVars, gitVars, parseVars, effects, pushVars, fixVars,
                 callVars, runVars, diagVars>>

\* a final push that keeps the flag of the earlier pushes
final_pushed_sticky(before, ok) == before \/ ok

\* line 253: pushed = push_ok
final_pushed(before, ok) == ok

\* line 252-253: push_ok = self._push_fixes(..., "final", branch); pushed = push_ok
L252 ==
  /\ pc = "L252"
  /\ \E git \in GitOutcomes :
       LET r == _push_fixes(git, worktree, local_commits, remote) IN
       /\ push_ok' = r.ok
       /\ git_pushes' = Pushes(git_commands(git, worktree))
       /\ pushed' = final_pushed(pushed, push_ok')
       /\ worktree' = r.worktree /\ local_commits' = r.local_commits /\ remote' = r.remote
  /\ Goto("L254")
  /\ Does({"git"})
  /\ push_calls' = push_calls + 1
  /\ UNCHANGED <<cfgVars, execVars, num, attempt, attempts, all_modified, result, errors,
                 fix_result, endVars, countVars, parseVars, fixVars,
                 callVars, runVars, diagVars>>

\* lines 260-271: return BuildResult(success=True, ...)
L260 ==
  /\ pc = "L260"
  /\ returned' = BuildResult(TRUE, num, attempts, <<>>, all_modified, "passed", pushed,
                             cli_info)
  /\ Goto("returned")
  /\ UNCHANGED <<cfgVars, execVars, loopVars, raised, countVars, gitVars, parseVars, effects,
                 pushVars, fixVars,
                 callVars, runVars, diagVars>>

\* line 287: err_summary = self.parser.get_error_summary(errors)
L287 ==
  /\ pc = "L287"
  /\ IF get_error_summary_raises(errors)
     THEN raised' = "AttributeError" /\ Goto("raised")
     ELSE UNCHANGED raised /\ Goto("L289")
  /\ UNCHANGED <<cfgVars, execVars, loopVars, returned, countVars, gitVars, parseVars, effects,
                 pushVars, fixVars,
                 callVars, runVars, diagVars>>

\* a last-attempt test that is off by one
last_attempt_strict(n, maxAttempts) == n > maxAttempts

\* line 295: if num >= self.max_attempts
last_attempt(n, maxAttempts) == n >= maxAttempts

\* lines 295-297
L295 ==
  /\ pc = "L295"
  /\ IF last_attempt(num, max_attempts)
     THEN /\ attempt' = [attempt EXCEPT !.status = "failed"]
          /\ attempts' = Append(attempts, attempt')
          /\ Goto("L298")
     ELSE /\ Goto("L302")
          /\ UNCHANGED <<attempt, attempts>>
  /\ UNCHANGED <<cfgVars, execVars, num, all_modified, pushed, result, errors, fix_result,
                 endVars, countVars, gitVars, parseVars, effects, pushVars, fixVars,
                 callVars, runVars, diagVars>>

\* lines 306-308: attempt.status = "fixing"; the fixer gathers the context
\* of the errors (lines 152-154 of auto_fixer.py, outside its try), then
\* calls the backend
L306 ==
  /\ pc = "L306"
  /\ attempt' = [attempt EXCEPT !.status = "fixing"]
  /\ fixer_calls' = fixer_calls + 1
  /\ \/ /\ raised' = "ContextReadError"
        /\ Goto("raised")
        /\ UNCHANGED <<fix_result, backend_calls>>
     \/ /\ \E backend \in BackendOutcomes : fix_result' = diagnose_and_fix(errors, max_errors, backend)
        /\ backend_calls' = backend_calls + generate_calls(errors)
        /\ Goto("L310")
        /\ UNCHANGED raised
  /\ Does({"fixer"})
  /\ UNCHANGED <<cfgVars, execVars, num, attempts, all_modified, pushed, result, errors,
                 returned, builds, gitVars, parseVars, pushVars, fixVars,
                 seed_calls, runVars, diagVars>>

\* a fixer whose result is always taken to hold patches
no_patches_never(fr) == FALSE

\* line 310: if not fix_result.success or not fix_result.patches
no_patches(fr) == ~fr.success \/ fr.patches = <<>>

\* lines 310-319
L310 ==
  /\ pc = "L310"
  /\ IF no_patches(fix_result)
     THEN /\ attempt' = [attempt EXCEPT !.status = "failed"]
          /\ attempts' = Append(attempts, attempt')
          /\ Goto("L320")
     ELSE /\ Goto("L327")
          /\ UNCHANGED <<attempt, attempts>>
  /\ UNCHANGED <<cfgVars, execVars, num, all_modified, pushed, result, errors, fix_result,
                 endVars, countVars, gitVars, parseVars, effects, pushVars, fixVars,
                 callVars, runVars, diagVars>>

\* the changes the first k patches make to the working tree
Written(n, patches, k) == { Change(n, patches[i].file_path) : i \in 1..k }

\* lines 327-329: apply_patches writes the patches in order; write_text of
\* patch k may raise (k = 0: none does), the patches before it are on disk
L327 ==
  /\ pc = "L327"
  /\ \E k \in 0..Len(fix_result.patches) :
       IF k = 0
       THEN /\ worktree' = worktree \cup Written(num, fix_result.patches, Len(fix_result.patches))
            /\ attempt' = [attempt EXCEPT !.fixes_applied = fix_result.patches]
            /\ all_modified' = all_modified \o apply_patches(fix_result.patches)
            /\ Goto(IF can_push THEN "L333" ELSE "L347")
            /\ UNCHANGED raised
       ELSE /\ worktree' = worktree \cup Written(num, fix_result.patches, k - 1)
            /\ raised' = "PatchWriteError"
            /\ Goto("raised")
            /\ UNCHANGED <<attempt, all_modified>>
  /\ Does({"write"})
  /\ UNCHANGED <<cfgVars, execVars, num, attempts, pushed, result, errors, fix_result,
                 returned, countVars, local_commits, remote, parseVars, pushVars, fixVars,
                 callVars, runVars, diagVars>>

\* lines 334-335: push_ok = self._push_fixes(..., str(num), branch)
L334 ==
  /\ pc = "L334"
  /\ \E git \in GitOutcomes :
       LET r == _push_fixes(git, worktree, local_commits, remote) IN
       /\ push_ok' = r.ok
       /\ git_pushes' = Pushes(git_commands(git, worktree))
       /\ pushed' = (pushed \/ push_ok')
       /\ worktree' = r.worktree /\ local_commits' = r.local_commits /\ remote' = r.remote
  /\ Goto("L336")
  /\ Does({"git"})
  /\ push_calls' = push_calls + 1
  /\ UNCHANGED <<cfgVars, execVars, num, attempt, attempts, all_modified, result, errors,
                 fix_result, endVars, countVars, parseVars, fixVars,
                 callVars, runVars, diagVars>>

\* lines 351-352: attempt.status = "fixed"; attempts.append(attempt)
L351 ==
  /\ pc = "L351"
  /\ attempt' = [attempt EXCEPT !.status = "fixed"]
  /\ attempts' = Append(attempts, attempt')
  /\ Goto("L217")
  /\ UNCHANGED <<cfgVars, execVars, num, all_modified, pushed, result, errors, fix_result,
                 endVars, countVars, gitVars, parseVars, effects, pushVars, fixVars,
                 callVars, runVars, diagVars>>

\* lines 356-368: return BuildResult(success=False, ...)
L356 ==
  /\ pc = "L356"
  /\ returned' = BuildResult(FALSE, Len(attempts), attempts,
                             IF attempts # <<>> THEN attempts[Len(attempts)].errors ELSE <<>>,
                             all_modified, "failed", pushed, cli_info)
  /\ Goto("returned")
  /\ UNCHANGED <<cfgVars, execVars, loopVars, raised, countVars, gitVars, parseVars, effects,
                 pushVars, fixVars,
                 callVars, runVars, diagVars>>

Next ==
  \/ L155 \/ L157 \/ L173 \/ L178 \/ L183 \/ L187 \/ L192 \/ L201
  \/ Progress \/ ProgressRaises
  \/ L217 \/ L221 \/ L238 \/ L252 \/ L260 \/ L287 \/ L295 \/ L306 \/ L310 \/ L327
  \/ L334 \/ L351 \/ L356

Spec == Init /\ [][Next]_vars


(***************************************************************************)
(* The parser on its own: parse and has_error_indicators applied to one    *)
(* stdout / stderr pair built from the lines below, stderr of one line at  *)
(* most.                                                                   *)
(***************************************************************************)
MaxStdoutLines == 2

ParseLines ==
  { <<"Compilation", "Error", "in", "model", "m1", "(p.sql)">>,
    <<"Database", "Error", "in", "seed", "seed_x", "(s.csv)">>,
    <<"Failure", "in", "seed", "seed_x", "(s.csv)">>,
    <<"3", "of", "30", "ERROR", "loading", "seed", "seed_x">>,
    <<"1", "of", "30", "FAIL", "m1">>,
    <<"1", "of", "30", "PASS", "m1">>,
    <<"Runtime", "Error">>,
    <<"Parsing", "Error", "in", "s.yml">>,
    <<"connection", "ERROR">>,
    <<"FAIL">>,
    <<"msg">>,
    <<>> }

\* the texts of at most n lines, with or without a last "\n"
TextsOf(n) ==
  LET bodies == UNION { { JoinLines(ls) : ls \in [1..k -> ParseLines] } : k \in 0..n }
  IN bodies \cup { b \o <<NL>> : b \in bodies }

ParseInit ==
  /\ ppc = "ready"
  /\ in_stdout \in TextsOf(MaxStdoutLines)
  /\ in_stderr \in TextsOf(1)
  /\ out_errors = <<>> /\ out_indicators = FALSE
  /\ pc = "idle"
  /\ max_attempts = 0 /\ can_push = FALSE /\ on_path = FALSE
  /\ dbt_path = NoPath /\ lookups = 0 /\ cli_info = None
  /\ num = 0 /\ attempt = None /\ attempts = <<>> /\ all_modified = <<>>
  /\ pushed = FALSE /\ result = None /\ errors = <<>> /\ fix_result = None
  /\ returned = None /\ raised = "none"
  /\ builds = 0 /\ fixer_calls = 0
  /\ worktree = {} /\ local_commits = {} /\ remote = {}
  /\ effects = {}
  /\ push_ok = None /\ push_calls = 0 /\ git_pushes = 0
  /\ seed_calls = 0 /\ backend_calls = 0
  /\ RunIdle /\ DiagIdle
  /\ FixIdle

ParseRun ==
  /\ ppc = "ready"
  /\ out_errors' = parse(in_stdout, in_stderr)
  /\ out_indicators' = has_error_indicators(in_stdout, in_stderr)
  /\ ppc' = "done"
  /\ UNCHANGED <<pc, cfgVars, execVars, loopVars, endVars, countVars, gitVars, in_stdout,
                 in_stderr, effects, pushVars, fixVars,
                 callVars, runVars, diagVars>>

ParseNext == ParseRun

ParseSpec == ParseInit /\ [][ParseNext]_vars

(***************************************************************************)
(* DbtAutoFixer._parse_response on its own, and apply_patches on what it   *)
(* returns.  The response is taken as the matches of its two patterns: the *)
(* code block of each match of fix_re (strict) and of alt_re (lenient),    *)
(* every block naming the one file response.path.  A content is a string   *)
(* of characters; disk is the file the path names.  A path is the sequence *)
(* of its segments, "/" first when it is absolute; the path texts hold no  *)
(* blank and no backtick, which is all that lines 321 and 348 strip.       *)
(***************************************************************************)
MaxContentLen == 2

Space == " "
Chars == {"x", Space, NL}
Contents == UNION { [1..n -> Chars] : n \in 0..MaxContentLen }

\* a str.strip() that strips nothing
StrStrip_keeps(cs) == cs

\* str.strip() of a string of characters
StrStrip(cs) ==
  LET kept == { i \in 1..Len(cs) : cs[i] \notin {Space, NL} } IN
  IF kept = {} THEN <<>>
  ELSE SubSeq(cs, Min(kept), CHOOSE i \in kept : \A j \in kept : j <= i)

\* FilePatch with the contents lines 331-337 and 353-359 give it
ParsedPatch(path, original, content) ==
  [file_path |-> path, original_content |-> original, fixed_content |-> content \o <<NL>>]

\* lines 326-329, 350-351: original = orig_path.read_text() if it exists
original_of(d) == IF d.exists THEN d.content ELSE <<>>

\* DbtAutoFixer.project_dir
project_dir == <<"/", "proj">>

\* what a response can put in its file marker: a path under the project, a
\* path with a ".." segment, an absolute path
PathTexts == { <<"models", "x.sql">>, <<"..", "x.sql">>, <<"/", "tmp", "x.sql">> }

\* pathlib: dir / p; an absolute p replaces dir
PathJoin(dir, p) == IF p # <<>> /\ p[1] = "/" THEN p ELSE dir \o p

RECURSIVE Resolved(_, _)
\* the file the OS opens for a path: a ".." segment steps to the parent
Resolved(done, rest) ==
  IF rest = <<>> THEN done
  ELSE IF rest[1] = ".."
  THEN Resolved(IF Len(done) > 1 THEN SubSeq(done, 1, Len(done) - 1) ELSE done, Tail(rest))
  ELSE Resolved(Append(done, rest[1]), Tail(rest))

\* apply_patches, lines 178-181: the files fp.write_text writes
write_targets(patches) ==
  { Resolved(<<>>, PathJoin(project_dir, patches[i].file_path)) : i \in 1..Len(patches) }

RECURSIVE PatchesOf(_, _, _)
\* the loop over the matches of one pattern: lines 321-338, 347-360
PatchesOf(blocks, path, d) ==
  IF blocks = <<>> THEN <<>>
  ELSE LET content == StrStrip(blocks[1])
           original == original_of(d)
       IN (IF content # <<>> /\ content # StrStrip(original)
           THEN <<ParsedPatch(path, original, content)>> ELSE <<>>)
          \o PatchesOf(Tail(blocks), path, d)

\* DbtAutoFixer._parse_response: the lenient pattern is tried when the
\* strict one gave no patch (a match of alt_re holds a ``` fence)
_parse_response(resp, d) ==
  LET patches == PatchesOf(resp.strict, resp.path, d) IN
  IF patches = <<>> THEN PatchesOf(resp.lenient, resp.path, d) ELSE patches

\* no match of a pattern, or one
BlocksOf == {<<>>} \cup { <<c>> : c \in Contents }

PatchInit ==
  /\ fpc = "ready"
  /\ response \in [strict : BlocksOf, lenient : BlocksOf, path : PathTexts]
  /\ disk \in {[exists |-> FALSE, content |-> <<>>]}
               \cup { [exists |-> TRUE, content |-> c] : c \in Contents }
  /\ out_patches = <<>> /\ written = {}
  /\ pc = "idle"
  /\ max_attempts = 0 /\ can_push = FALSE /\ on_path = FALSE
  /\ dbt_path = NoPath /\ lookups = 0 /\ cli_info = None
  /\ num = 0 /\ attempt = None /\ attempts = <<>> /\ all_modified = <<>>
  /\ pushed = FALSE /\ result = None /\ errors = <<>> /\ fix_result = None
  /\ returned = None /\ raised = "none"
  /\ builds = 0 /\ fixer_calls = 0
  /\ worktree = {} /\ local_commits = {} /\ remote = {}
  /\ effects = {}
  /\ push_ok = None /\ push_calls = 0 /\ git_pushes = 0
  /\ seed_calls = 0 /\ backend_calls = 0
  /\ RunIdle /\ DiagIdle
  /\ ParseIdle

PatchRun ==
  /\ fpc = "ready"
  /\ out_patches' = _parse_response(response, disk)
  /\ fpc' = "done"
  /\ UNCHANGED <<pc, cfgVars, execVars, loopVars, endVars, countVars, gitVars, parseVars,
                 effects, pushVars, response, disk, written,
                 callVars, runVars, diagVars>>

\* lines 175-184: apply_patches(patches) on the patches parsed
ApplyRun ==
  /\ fpc = "done"
  /\ written' = write_targets(out_patches)
  /\ fpc' = "applied"
  /\ UNCHANGED <<pc, cfgVars, execVars, loopVars, endVars, countVars, gitVars, parseVars,
                 effects, pushVars, response, disk, out_patches, callVars, runVars,
                 diagVars>>

PatchNext == PatchRun \/ ApplyRun

PatchSpec == PatchInit /\ [][PatchNext]_vars

(***************************************************************************)
(* DbtCliExecutor._run on its own: one call, on an executor that has or    *)
(* has not resolved the binary yet.                                        *)
(***************************************************************************)
\* validate() is not running
ValidateIdle ==
  /\ pc = "idle"
  /\ max_attempts = 0 /\ can_push = FALSE /\ cli_info = None
  /\ num = 0 /\ attempt = None /\ attempts = <<>> /\ all_modified = <<>>
  /\ pushed = FALSE /\ result = None /\ errors = <<>> /\ fix_result = None
  /\ returned = None /\ raised = "none"
  /\ builds = 0 /\ fixer_calls = 0
  /\ worktree = {} /\ local_commits = {} /\ remote = {}
  /\ effects = {}
  /\ push_ok = None /\ push_calls = 0 /\ git_pushes = 0
  /\ seed_calls = 0 /\ backend_calls = 0

\* lines 73, 189-238: the commands the executor's methods pass to _run
Commands ==
  {"dbt --version", "dbt deps", "dbt seed --full-refresh", "dbt run", "dbt test",
   "dbt build --full-refresh", "dbt compile"}

RunInit ==
  /\ rpc = "ready"
  /\ run_cmd \in Commands
  /\ run_result = None /\ run_event = "none" /\ started = 0
  /\ on_path \in BOOLEAN
  /\ dbt_path \in {NoPath, which(TRUE)}
  /\ lookups = 0
  /\ ValidateIdle /\ ParseIdle /\ FixIdle /\ DiagIdle

\* lines 123-185: one call of _run
RunCmd ==
  /\ rpc = "ready"
  /\ dbt_path' = dbt_path_after(dbt_path, which(on_path))
  /\ lookups' = IF dbt_path = NoPath THEN lookups + 1 ELSE lookups
  /\ IF dbt_path' = NoPath
     THEN /\ run_result' = _run_not_found(run_cmd)
          /\ UNCHANGED <<run_event, started>>
     ELSE /\ started' = started + 1
          /\ \E event \in RunEvents, o \in ProcessOutcomes :
               /\ run_event' = event
               /\ run_result' = _run_on(run_cmd, event, o)
  /\ rpc' = "done"
  /\ UNCHANGED <<pc, cfgVars, cli_info, loopVars, endVars, countVars, gitVars, parseVars,
                 effects, pushVars, fixVars, callVars, run_cmd, diagVars>>

RunNext == RunCmd

RunSpec == RunInit /\ [][RunNext]_vars

(***************************************************************************)
(* DbtAutoFixer.diagnose_and_fix on its own: one call, on a list of errors *)
(* of any categories; model_name tells the errors of a list apart.         *)
(***************************************************************************)
MaxErrors == 3

ErrorLists ==
  UNION { { [i \in 1..n |-> DbtError(c[i], TRUE, ToString(i), "", <<>>, <<>>, "")] :
              c \in [1..n -> Categories] } : n \in 0..MaxErrors }

DiagInit ==
  /\ dpc = "ready"
  /\ diag_errors \in ErrorLists
  /\ diag_max \in 0..MaxErrors
  /\ diag_backend \in BackendOutcomes
  /\ sorted_errors = <<>> /\ diag_result = None
  /\ on_path = FALSE /\ dbt_path = NoPath /\ lookups = 0
  /\ ValidateIdle /\ ParseIdle /\ FixIdle /\ RunIdle

\* lines 134-173: one call of diagnose_and_fix
DiagRun ==
  /\ dpc = "ready"
  /\ sorted_errors' = IF diag_errors = <<>> THEN <<>>
                      ELSE SortedErrors(diag_errors, diag_max)
  /\ diag_result' = diagnose_and_fix(diag_errors, diag_max, diag_backend)
  /\ dpc' = "done"
  /\ UNCHANGED <<pc, cfgVars, execVars, loopVars, endVars, countVars, gitVars, parseVars,
                 effects, pushVars, fixVars, callVars, runVars, diag_errors, diag_max,
                 diag_backend>>

DiagNext == DiagRun

DiagSpec == DiagInit /\ [][DiagNext]_vars

(***************************************************************************)
(* Claims                                                                  *)
(***************************************************************************)
Terminal == {"returned", "raised"}

\* the attempt of the running iteration, once line 238 has classified its build
Classified == attempt # None /\ attempt.command_result # None /\ pc # "L238"

ExitOkAndClean(r) ==
  r.success /\ ~ (\/ \E indicator \in _ERROR_INDICATORS :
                       TextContainsPhrase(Combined(r.stdout, r.stderr), indicator)
                  \/ _SUMMARY_ERROR_RE(Combined(r.stdout, r.stderr)))

\* C1: in every iteration the attempt is marked success exactly when its
\* build exited 0 and its output holds no error indicator (substring or
\* "N of M ERROR|FAIL" line), and validate() returns success=true exactly
\* when its last attempt is such a build.
C1_SuccessIffExitOkAndNoIndicators ==
  /\ Classified =>
       ((attempt.status = "success") <=> ExitOkAndClean(attempt.command_result))
  /\ \A i \in 1..Len(attempts) :
       (attempts[i].status = "success") <=> ExitOkAndClean(attempts[i].command_result)
  /\ (pc = "returned" /\ returned.total_attempts > 0) =>
       (returned.success <=>
          ExitOkAndClean(returned.attempts[Len(returned.attempts)].command_result))

\* a build that exited 0 with an error indicator in its output was classified
C1_Witness ==
  /\ Classified
  /\ attempt.command_result.success
  /\ has_error_indicators(attempt.command_result.stdout, attempt.command_result.stderr)
  /\ attempt.status # "success"

\* the patches written to the working tree so far: each is in the working
\* tree, in a local commit, or on the remote
AppliedPatches == { c \in worktree \cup local_commits \cup remote : c.attempt > 0 }

\* C2: a BuildResult with pushed_to_github=true means the remote branch holds
\* every patch applied during the run.
C2_PushedMeansRemoteHasEveryPatch ==
  (pc = "returned" /\ returned.pushed_to_github) => AppliedPatches \subseteq remote

NonNeg(n) == IF n < 0 THEN 0 ELSE n

\* the source line of a label; the two ends of validate() come last
LineOf ==
  ("L155" :> 155) @@ ("L157" :> 157) @@ ("L173" :> 173) @@ ("L177" :> 177)
  @@ ("L178" :> 178) @@ ("L179" :> 179) @@ ("L182" :> 182) @@ ("L183" :> 183)
  @@ ("L184" :> 184) @@ ("L187" :> 187) @@ ("L191" :> 191) @@ ("L192" :> 192)
  @@ ("L193" :> 193) @@ ("L200" :> 200) @@ ("L201" :> 201) @@ ("L202" :> 202)
  @@ ("L217" :> 217) @@ ("L220" :> 220) @@ ("L221" :> 221) @@ ("L238" :> 238)
  @@ ("L251" :> 251) @@ ("L252" :> 252) @@ ("L254" :> 254) @@ ("L259" :> 259)
  @@ ("L260" :> 260) @@ ("L287" :> 287) @@ ("L289" :> 289) @@ ("L295" :> 295)
  @@ ("L298" :> 298) @@ ("L302" :> 302) @@ ("L306" :> 306) @@ ("L310" :> 310)
  @@ ("L320" :> 320) @@ ("L327" :> 327) @@ ("L333" :> 333) @@ ("L334" :> 334)
  @@ ("L336" :> 336) @@ ("L347" :> 347) @@ ("L351" :> 351) @@ ("L356" :> 356)
  @@ ("returned" :> 999) @@ ("raised" :> 999)

\* a variant of validate(): the iterations the loop may still start, then
\* the lines left in the running one.  Control moves down the source except
\* from line 351 to line 217, which ends an iteration.
Variant == (max_attempts - Len(attempts)) * 1000 + (1000 - LineOf[pc])

\* C3: validate() terminates (every step lowers a variant that stays >= 0,
\* and a step is possible until validate() has returned or raised; at line
\* 238 the step is an assignment with no condition but the label), with at
\* most max_attempts calls of the build command and at most
\* max(0, max_attempts - 1) calls of the auto-fixer.
C3_TerminatesWithinBudget ==
  /\ [][Variant' < Variant]_vars
  /\ [](Variant >= 0)
  /\ [](pc \in Terminal \/ pc = "L238" \/ ENABLED Next)
  /\ [](builds <= max_attempts /\ fixer_calls <= NonNeg(max_attempts - 1))

\* the run ended after max_attempts builds and max_attempts - 1 fixer calls
C3_Witness ==
  /\ pc = "returned" /\ max_attempts = MaxAttemptsBound
  /\ builds = max_attempts /\ fixer_calls = max_attempts - 1

\* C4: the fixer is never invoked on attempt max_attempts; a failed run ends
\* with an attempt of status failed, which has no fixes_applied when it is
\* attempt max_attempts.
C4_NoFixOnLastAttempt ==
  /\ pc \in {"L306", "L310", "L327"} => num < max_attempts
  /\ (attempt # None /\ attempt.status \in {"fixing", "fixed"}) =>
       attempt.attempt_number < max_attempts
  /\ (pc = "returned" /\ ~returned.success /\ returned.attempts # <<>>) =>
       LET last == returned.attempts[Len(returned.attempts)] IN
       /\ last.status = "failed"
       /\ last.attempt_number = max_attempts => last.fixes_applied = <<>>

\* a failed run whose last attempt is attempt max_attempts, after fixes
C4_Witness ==
  /\ pc = "returned" /\ ~returned.success
  /\ Len(returned.attempts) = max_attempts /\ max_attempts >= 2
  /\ returned.attempts[1].fixes_applied # <<>>

\* C5: in a returned BuildResult attempts[i].attempt_number = i+1 (0-based
\* i), the list has at most max_attempts entries and total_attempts is its
\* length.
C5_AttemptNumbering ==
  pc = "returned" =>
    /\ \A i \in 1..Len(returned.attempts) : returned.attempts[i].attempt_number = i
    /\ Len(returned.attempts) <= max_attempts
    /\ returned.total_attempts = Len(returned.attempts)

\* a successful BuildResult with max_attempts attempts
C5_Witness ==
  /\ pc = "returned" /\ returned.success
  /\ Len(returned.attempts) = MaxAttemptsBound

\* the transitions of section 4.4 of the specification
SpecTransitions ==
  { <<"pending", "building">>, <<"building", "success">>, <<"building", "fixing">>,
    <<"fixing", "fixed">>, <<"fixing", "failed">> }

\* the transitions of the code: the last allowed attempt goes from building
\* to failed, the fixer not being called
CodeTransitions == SpecTransitions \cup { <<"building", "failed">> }

\* one step changes no status except along allowed: a new BuildAttempt is
\* pending, the running attempt moves along allowed, an appended attempt is
\* the running one, and an attempt in the list never changes
StatusStep(allowed) ==
  /\ attempt' # attempt =>
       IF attempt = None \/ attempt'.attempt_number # attempt.attempt_number
       THEN attempt'.status = "pending"
       ELSE attempt'.status = attempt.status
            \/ <<attempt.status, attempt'.status>> \in allowed
  /\ \A i \in 1..Len(attempts) : Len(attempts') >= i /\ attempts'[i] = attempts[i]
  /\ Len(attempts') > Len(attempts) =>
       Len(attempts') = Len(attempts) + 1 /\ attempts'[Len(attempts')] = attempt'

\* C6 as stated: the status of a BuildAttempt changes only along pending ->
\* building, building -> success, building -> fixing, fixing -> fixed and
\* fixing -> failed.
C6_OnlySpecTransitions == [][StatusStep(SpecTransitions)]_vars

\* C6 as amended: the status changes only along those transitions and
\* building -> failed; none goes backward.
C6_OnlyCodeTransitions == [][StatusStep(CodeTransitions)]_vars

\* the last allowed attempt was marked failed without a fixer call
C6_Witness ==
  /\ pc = "L298" /\ attempt.status = "failed" /\ fixer_calls < num

\* C7: when a failed build yields no parsed errors, the attempt records one
\* synthesized error of category unknown and validate() carries on instead
\* of raising.
C7_SynthesizedErrorCarriesOn ==
  (/\ Classified
   /\ ~ExitOkAndClean(attempt.command_result)
   /\ parse(attempt.command_result.stdout, attempt.command_result.stderr) = <<>>) =>
    /\ Len(attempt.errors) = 1 /\ attempt.errors[1].category = "unknown"
    /\ raised # "AttributeError"

\* C8: no failure inside the Executor or the Auto-Fixer leaves validate() as
\* an exception.
C8_NoComponentExceptionEscapes == raised \notin {"ContextReadError", "PatchWriteError"}

\* C9: a progress callback that raises does not abort validate().
C9_CallbackFailureDoesNotAbort == raised # "ProgressCallbackError"

\* C10: when stdout or stderr contains "Error" or "FAIL", parse returns at
\* least one error.
C10_ParserTotality ==
  (/\ ppc = "done"
   /\ \/ TextContains(Combined(in_stdout, in_stderr), "Error")
      \/ TextContains(Combined(in_stdout, in_stderr), "FAIL")) =>
    out_errors # <<>>

\* the text holds a summary line "N of M ERROR loading seed <name>"
SeedSummaryLine(t, name) ==
  \E i \in 1..Len(t) :
    /\ ResultLineAt(t, i, {"ERROR"}).ok
    /\ Tok(t, i + 4) = "loading" /\ Tok(t, i + 5) = "seed" /\ Tok(t, i + 6) = name

\* C11: when the build exits 0 and its stdout holds the summary line
\* "3 of 30 ERROR loading seed seed_x", the attempt is not a success and its
\* errors hold one attributed to seed_x, of category seed_error or unknown
\* (the category of the summary-line fallback).
C11_SeedSummaryErrorNamesSeed ==
  (/\ Classified
   /\ attempt.command_result.success
   /\ SeedSummaryLine(attempt.command_result.stdout, "seed_x")) =>
    /\ attempt.status # "success"
    /\ \E k \in 1..Len(attempt.errors) :
         /\ attempt.errors[k].model_name = "seed_x"
         /\ attempt.errors[k].category \in {"seed_error", "unknown"}

\* C12: when the build tool is not available, validate() returns
\* success=false with total_attempts=0, no attempts and the installation
\* guidance, having written no file, called no progress callback, run no
\* dbt command, called no fixer and run no git command.
C12_NoToolNoEffect ==
  ~on_path =>
    /\ pc \in {"L155", "L157", "returned"}
    /\ effects = {} /\ builds = 0 /\ fixer_calls = 0
    /\ worktree = {} /\ local_commits = {} /\ remote = {}
    /\ pc = "returned" =>
         returned = BuildResult(FALSE, 0, <<>>, <<>>, <<>>, "cli_not_found", FALSE,
                                [type |-> "not_found"])

\* validate() returned without the build tool
C12_Witness == ~on_path /\ pc = "returned" /\ returned.message = "cli_not_found"

\* the fixer call of the running attempt yielded no patches, and line 310 has
\* read its result
FixerGaveNothing ==
  /\ fix_result # None /\ fixer_calls = num /\ pc # "L310"
  /\ ~fix_result.success \/ fix_result.patches = <<>>

\* C13: when the fixer yields no patches on a non-final attempt, the attempt
\* is marked failed, no patch is written, no push is made and no further
\* build is run, and a returned result has success=false and total_attempts
\* equal to the number of that attempt.
C13_NoPatchesStopsTheRun ==
  /\ [](FixerGaveNothing =>
          /\ num < max_attempts /\ attempt.attempt_number = num
          /\ attempt.status = "failed" /\ attempt.fixes_applied = <<>>
          /\ \A c \in worktree \cup local_commits \cup remote : c.attempt # num
          /\ builds = num
          /\ pc \in {"L320", "L356", "returned", "raised"}
          /\ pc = "returned" =>
               /\ ~returned.success /\ returned.total_attempts = num
               /\ returned.attempts[num] = attempt)
  /\ [][FixerGaveNothing =>
          UNCHANGED <<gitVars, pushed, builds, fixer_calls, all_modified, attempts>>]_vars

\* the fixer gave nothing on attempt 2, after a fix on attempt 1
C13_Witness ==
  /\ FixerGaveNothing /\ pc = "returned" /\ num = 2
  /\ returned.attempts[1].status = "fixed"

\* the build of the running attempt apparently succeeded
Succeeded == attempt # None /\ attempt.status = "success"

\* an attempt in the list applied patches
PatchedEarlier == \E i \in 1..Len(attempts) : attempts[i].fixes_applied # <<>>

\* the per-attempt pushes made before the build of attempt n
PushesBefore(n) == IF can_push THEN n - 1 ELSE 0

\* C14: after an apparently successful build validate() makes exactly one
\* push when a remote is configured and an earlier attempt applied patches,
\* and none otherwise; the result has success=true, and pushed_to_github is
\* what that final push returned, so false when it failed, whatever the
\* earlier pushes returned.
C14_OneFinalPush ==
  Succeeded =>
    LET final == can_push /\ PatchedEarlier IN
    /\ pc \in {"L251", "L252", "L254", "L259", "L260", "returned", "raised"}
    /\ pc \in {"L251", "L252", "L254"} => final
    /\ pc \in {"L251", "L252"} => push_calls = PushesBefore(num)
    /\ pc = "L254" => push_calls = PushesBefore(num) + 1 /\ pushed = push_ok
    /\ pc \in {"L259", "L260", "returned"} =>
         /\ push_calls = PushesBefore(num) + (IF final THEN 1 ELSE 0)
         /\ final => pushed = push_ok
    /\ pc = "raised" => push_calls <= PushesBefore(num) + (IF final THEN 1 ELSE 0)
    /\ pc = "returned" =>
         /\ returned.success
         /\ final => returned.pushed_to_github = push_ok

\* the final push failed after the push of attempt 1 had succeeded
C14_Witness ==
  /\ pc = "returned" /\ returned.success /\ push_calls > 0 /\ push_ok = FALSE
  /\ ~returned.pushed_to_github
  /\ \E c \in remote : c.attempt = 1

C16_FailureCarriesLastErrors ==
  (pc = "returned" /\ ~returned.success /\ returned.message # "cli_not_found") =>
    /\ returned.attempts # <<>>
    /\ returned.final_errors = returned.attempts[Len(returned.attempts)].errors
    /\ returned.final_errors # <<>>

\* the paths of the patches the first k attempts of atts applied, in order
RECURSIVE PathsApplied(_, _)
PathsApplied(atts, k) ==
  IF k = 0 THEN <<>>
  ELSE PathsApplied(atts, k - 1)
       \o [i \in 1..Len(atts[k].fixes_applied) |-> atts[k].fixes_applied[i].file_path]

\* C17: when the first apparently successful build is that of attempt k,
\* validate() returns success=true with total_attempts=k, attempts 1..k-1
\* fixed, and files_modified the paths of the patches of attempts 1..k-1;
\* for k=1 files_modified is empty and pushed_to_github is false.
C17_SuccessOnAttemptK ==
  (pc = "returned" /\ returned.success) =>
    LET k == Len(returned.attempts) IN
    /\ k >= 1 /\ returned.total_attempts = k /\ builds = k
    /\ returned.attempts[k].status = "success"
    /\ \A i \in 1..(k - 1) : returned.attempts[i].status = "fixed"
    /\ returned.files_modified = PathsApplied(returned.attempts, k - 1)
    /\ k = 1 => returned.files_modified = <<>> /\ ~returned.pushed_to_github

\* the build of attempt 3 was the first to succeed
C17_Witness ==
  /\ pc = "returned" /\ returned.success /\ returned.total_attempts = 3
  /\ Len(returned.files_modified) >= 2

\* C18: files_modified is the union of the paths the applied patches wrote:
\* every written path, no other path, and no path twice.
C18_FilesModifiedIsUnion ==
  pc = "returned" =>
    LET fm == returned.files_modified IN
    /\ { fm[i] : i \in 1..Len(fm) } = { c.file_path : c \in AppliedPatches }
    /\ \A i, j \in 1..Len(fm) : i # j => fm[i] # fm[j]

\* C20: two consecutive calls of _push_fixes with no change of the working
\* tree between them (the git commands succeeding) both return True and the
\* second creates no commit: from every state of the repository, for the two
\* calls as such and for the final push of validate() when it follows a
\* per-attempt push that returned True.
C20_PushTwiceIsIdempotent ==
  /\ [](LET r1 == _push_fixes("ok", worktree, local_commits, remote)
            r2 == _push_fixes("ok", r1.worktree, r1.local_commits, r1.remote)
        IN /\ r1.ok /\ r2.ok
           /\ r2.worktree = r1.worktree /\ r2.local_commits = r1.local_commits
           /\ r2.remote = r1.remote)
  /\ [][(pc = "L252" /\ push_calls > 0 /\ push_ok = TRUE) =>
          UNCHANGED <<worktree, local_commits, remote>>]_vars

\* the final push returned True right after the push of attempt 1 had
C20_Witness ==
  /\ pc = "L254" /\ push_calls = 2 /\ push_ok = TRUE /\ num = 2
  /\ \E c \in remote : c.attempt = 1

\* C19: no patch _parse_response returns has as fixed_content the content
\* its file has on disk, whether the strict or the lenient pattern gave it.
C19_NoPatchEqualsDisk ==
  (fpc = "done" /\ disk.exists) =>
    \A i \in 1..Len(out_patches) : out_patches[i].fixed_content # disk.content

\* the strict block would change nothing and was dropped; the lenient block
\* gave the patch
C19_Witness ==
  /\ fpc = "done" /\ disk.exists /\ disk.content # <<>>
  /\ response.strict # <<>> /\ StrStrip(response.strict[1]) = StrStrip(disk.content)
  /\ out_patches # <<>>

\* C21: DbtCliExecutor._run always returns a result: with the binary not
\* resolved it returns success=false and return code -1 and starts no
\* process; when the timeout expires it returns success=false and return code
\* -2; when the launch fails otherwise it returns success=false and a negative
\* return code; and success is true exactly when the return code is 0.
C21_RunnerAlwaysReturnsAResult ==
  /\ rpc = "ready" => ENABLED RunCmd
  /\ rpc = "done" =>
       /\ run_result.success <=> (run_result.return_code = 0)
       /\ dbt_path = NoPath =>
            (~run_result.success /\ run_result.return_code = -1 /\ started = 0)
       /\ dbt_path # NoPath => started = 1
       /\ run_event = "timeout" => (~run_result.success /\ run_result.return_code = -2)
       /\ run_event = "error" => (~run_result.success /\ run_result.return_code < 0)

C21_Witness ==
  rpc = "done" /\ run_event = "timeout" /\ run_result.return_code = -2 /\ started = 1

\* C22: the seed pre-check runs at most once and before the first build;
\* the step that runs it goes on to the build loop whatever dbt seed returned,
\* records no attempt and calls neither the fixer nor the push helper; a run
\* that returns after it with max_attempts >= 1 has built at least once, and
\* total_attempts is the number of builds.
C22_SeedPreCheckIsNotAnAttempt ==
  /\ [](seed_calls <= 1 /\ (builds > 0 => seed_calls = 1))
  /\ [][seed_calls' # seed_calls =>
          /\ num = 0 /\ builds' = 0 /\ pc' = "L202"
          /\ attempts' = <<>> /\ fixer_calls' = 0 /\ backend_calls' = 0
          /\ push_calls' = 0]_vars
  /\ [](pc = "returned" => returned.total_attempts = builds)
  /\ []((pc = "returned" /\ seed_calls = 1 /\ max_attempts >= 1) => builds >= 1)

C22_Witness ==
  pc = "returned" /\ seed_calls = 1 /\ builds = 1 /\ returned.total_attempts = 1

\* C23: in one run of validate() no component repeats its own call: a new
\* attempt starts only when every earlier attempt has built once, and a build
\* is the one build of the running attempt; a fix pass that reaches the
\* backend calls it once; a call of the push helper issues at most one git
\* push.
C23_NoComponentRetries ==
  /\ [][num' # num => builds = num]_vars
  /\ [][builds' # builds => (builds' = builds + 1 /\ builds' = num)]_vars
  /\ [][fixer_calls' # fixer_calls =>
          /\ fixer_calls' = fixer_calls + 1
          /\ backend_calls' \in {backend_calls, backend_calls + 1}
          /\ pc' = "L310" => backend_calls' = backend_calls + 1]_vars
  /\ [][backend_calls' # backend_calls => fixer_calls' # fixer_calls]_vars
  /\ [][push_calls' # push_calls =>
          /\ push_calls' = push_calls + 1
          /\ git_pushes' \in {0, 1}]_vars
  /\ [][git_pushes' # git_pushes => push_calls' # push_calls]_vars

C23_Witness ==
  /\ push_calls = 1 /\ git_pushes = 1 /\ push_ok = FALSE
  /\ backend_calls = 1 /\ builds = 2 /\ num = 2

\* the place of a category in the order the fixer is to address errors
FixOrder(category) ==
  CASE category = "yaml_parse" -> 1
    [] category = "compilation" -> 2
    [] category = "database" -> 3
    [] category = "seed_error" -> 4
    [] category = "test_failure" -> 5
    [] category = "dependency" -> 6
    [] OTHER -> 7

\* error i of the input comes before error j in the stable sort
ComesBefore(i, j) ==
  \/ FixOrder(diag_errors[i].category) < FixOrder(diag_errors[j].category)
  \/ /\ FixOrder(diag_errors[i].category) = FixOrder(diag_errors[j].category)
     /\ i < j

\* the errors selected are the first diag_max of the input in the stable sort
SelectedByPriority ==
  /\ Len(sorted_errors) = IF diag_max < Len(diag_errors) THEN diag_max ELSE Len(diag_errors)
  /\ \A i \in 1..Len(sorted_errors) :
       \E j \in 1..Len(diag_errors) :
          /\ sorted_errors[i] = diag_errors[j]
          /\ Cardinality({ h \in 1..Len(diag_errors) : ComesBefore(h, j) }) = i - 1

\* C24: diagnose_and_fix selects the first max_errors errors of the input in
\* a stable sort by yaml_parse, compilation, database, seed_error,
\* test_failure, dependency, then the other categories; when the backend call
\* returns, errors_addressed is the number of selected errors and
\* errors_addressed + errors_remaining is the number of input errors.
C24_AddressesFirstByPriority ==
  (dpc = "done" /\ diag_errors # <<>>) =>
    /\ SelectedByPriority
    /\ ~diag_backend.raises =>
         /\ diag_result.errors_addressed = Len(sorted_errors)
         /\ diag_result.errors_addressed + diag_result.errors_remaining = Len(diag_errors)

\* C25: whenever has_error_indicators(stdout, stderr) is true,
\* parse(stdout, stderr) returns at least one error.
C25_IndicatorsImplyParsedError ==
  (ppc = "done" /\ out_indicators) => out_errors # <<>>

\* the node names of the errors parse() returned that name a node
NodeNames == { out_errors[i].model_name : i \in 1..Len(out_errors) } \ {""}

\* C26: parse() returns at most one error for a node name.
C26_OneErrorPerNode ==
  ppc = "done" =>
    \A i, j \in 1..Len(out_errors) :
       (out_errors[i].model_name = out_errors[j].model_name
        /\ out_errors[i].model_name # "") => i = j

\* C27: an executor looks the build tool up at most once, whether the lookup
\* found it or not: in a run of validate() and in a call of _run,
\* shutil.which is called at most once.
C27_BinaryLookedUpOnce == lookups <= 1

\* C28: in the BuildResult validate() returns, every attempt but the last
\* has status fixed and fixes applied; the last has status success when the
\* result is a success and failed when it is not; no attempt is pending,
\* building or fixing; and only a fixed attempt has fixes applied.
C28_ReturnedAttemptsAreSettled ==
  pc = "returned" =>
    LET atts == returned.attempts IN
    /\ \A i \in 1..(Len(atts) - 1) :
         atts[i].status = "fixed" /\ atts[i].fixes_applied # <<>>
    /\ Len(atts) > 0 =>
         atts[Len(atts)].status = IF returned.success THEN "success" ELSE "failed"
    /\ \A i \in 1..Len(atts) :
         /\ atts[i].status \notin {"pending", "building", "fixing"}
         /\ atts[i].fixes_applied # <<>> => atts[i].status = "fixed"

C28_Witness ==
  /\ pc = "returned" /\ Len(returned.attempts) = 3
  /\ returned.attempts[2].status = "fixed" /\ ~returned.success

\* C29: a per-attempt push starts when every patch of the attempt is in the
\* working tree; the build of attempt n starts when the n - 1 attempts before
\* it are fixed and, with a remote configured, their n - 1 pushes have
\* returned; once a build is apparently successful no fixer call, no patch
\* write and no per-attempt push is made, only the final push of line 252.
C29_OneDirectionPerCycle ==
  /\ [][(push_calls' # push_calls /\ pc = "L334") =>
          /\ attempt.fixes_applied # <<>>
          /\ Written(num, attempt.fixes_applied, Len(attempt.fixes_applied))
               \subseteq worktree]_vars
  /\ [][builds' # builds =>
          /\ Len(attempts) = num - 1
          /\ \A i \in 1..Len(attempts) : attempts[i].status = "fixed"
          /\ push_calls = PushesBefore(num)]_vars
  /\ [][Succeeded =>
          /\ fixer_calls' = fixer_calls /\ backend_calls' = backend_calls
          /\ AppliedPatches' \subseteq AppliedPatches
          /\ push_calls' # push_calls => pc = "L252"]_vars

C29_Witness ==
  /\ pc = "returned" /\ returned.success /\ num = 2
  /\ push_calls = 2 /\ attempts[1].status = "fixed"

\* a file under the project directory
InsideProject(file) ==
  Len(file) > Len(project_dir) /\ SubSeq(file, 1, Len(project_dir)) = project_dir

\* C30: apply_patches writes only inside the project directory, whatever
\* path the response put in its file marker.
C30_WritesStayInProject ==
  fpc = "applied" => \A file \in written : InsideProject(file)

====
